---- MODULE Spec2Model ----
(***************************************************************************)
(* Model of the Pinecone/OpenAI adapter layer: search_validator.py,        *)
(* insert_text.py and search_similar.py.  One invocation of insert_text or *)
(* search_similar_texts runs at a time; every external call               *)
(* (describe_index_stats, embed, query, upsert) is a step of its own whose *)
(* outcome (success or failure) is chosen by the environment.              *)
(***************************************************************************)
EXTENDS Integers, Sequences, FiniteSets, TLC

\* ---------------------------------------------------------------- bounds
MaxTopK == 2         \* largest top_k the callers pass
MaxIds == 2          \* number of uuid4 values drawn in one behaviour

\* ------------------------------------------------------- Python values
\* A Python value is a record with a "type" field; all but None carry "val".
PyNone == [type |-> "NoneType"]
PyStr(s) == [type |-> "str", val |-> s]
PyInt(n) == [type |-> "int", val |-> n]
PyBool(b) == [type |-> "bool", val |-> b]
PyFloat(n) == [type |-> "float", val |-> n]
PyList(s) == [type |-> "list", val |-> s]
PyDict(d) == [type |-> "dict", val |-> d]

\* A str is the sequence of its characters; these are the ones str.strip()
\* removes at either end.
Whitespace == {" ", "\t", "\n"}

\* bool(v): Python truthiness, as used by "not v" and "a or b".
Truthy(v) ==
    CASE v.type = "NoneType" -> FALSE
      [] v.type = "str" -> Len(v.val) > 0
      [] v.type = "int" -> v.val # 0
      [] v.type = "float" -> v.val # 0
      [] v.type = "bool" -> v.val
      [] v.type = "list" -> Len(v.val) > 0
      [] v.type = "dict" -> DOMAIN v.val # {}

\* isinstance(v, str)
IsInstanceStr(v) == v.type = "str"

\* isinstance(v, int): bool is a subclass of int.
IsInstanceInt(v) == v.type \in {"int", "bool"}

\* isinstance(v, dict)
IsInstanceDict(v) == v.type = "dict"

\* The integer a Python int or bool compares as.
IntValue(v) == IF v.type = "bool" THEN (IF v.val THEN 1 ELSE 0) ELSE v.val

RECURSIVE lstrip(_)
lstrip(s) == IF s # <<>> /\ Head(s) \in Whitespace THEN lstrip(Tail(s)) ELSE s

RECURSIVE rstrip(_)
rstrip(s) ==
    IF s # <<>> /\ s[Len(s)] \in Whitespace
    THEN rstrip(SubSeq(s, 1, Len(s) - 1))
    ELSE s

\* str.strip()
strip(s) == rstrip(lstrip(s))

\* a or b
PyOr(a, b) == IF Truthy(a) THEN a ELSE b

\* ----------------------------------------------------------- exceptions
NoExc == [exc |-> "none", msg |-> ""]
ValueError(m) == [exc |-> "ValueError", msg |-> m]
TypeError(m) == [exc |-> "TypeError", msg |-> m]
\* An error raised by an external service; msg names the call that failed.
ExternalError(call) == [exc |-> "ExternalError", msg |-> call]

\* ----------------------------------------------------------- validators
\* Mutant: the query is not stripped before the emptiness test.
validate_search_params_no_strip(query_text, top_k, api_key, index_name) ==
    IF ~Truthy(query_text) \/ ~IsInstanceStr(query_text)
    THEN ValueError("Query text cannot be empty and must be a string")
    ELSE IF ~IsInstanceInt(top_k)
    THEN TypeError("top_k must be an integer")
    ELSE IF IntValue(top_k) <= 0
    THEN ValueError("top_k must be a positive integer")
    ELSE IF ~Truthy(api_key)
    THEN ValueError("API key is required")
    ELSE IF ~Truthy(index_name)
    THEN ValueError("Index name is required")
    ELSE NoExc

\* Mutant: a top_k of the wrong type is reported as a bad value.
validate_search_params_one_kind(query_text, top_k, api_key, index_name) ==
    IF ~Truthy(query_text) \/ ~IsInstanceStr(query_text)
           \/ strip(query_text.val) = <<>>
    THEN ValueError("Query text cannot be empty and must be a string")
    ELSE IF ~IsInstanceInt(top_k)
    THEN ValueError("top_k must be an integer")
    ELSE IF IntValue(top_k) <= 0
    THEN ValueError("top_k must be a positive integer")
    ELSE IF ~Truthy(api_key)
    THEN ValueError("API key is required")
    ELSE IF ~Truthy(index_name)
    THEN ValueError("Index name is required")
    ELSE NoExc

\* Mutant: the credential is checked before top_k.
validate_search_params_key_first(query_text, top_k, api_key, index_name) ==
    IF ~Truthy(query_text) \/ ~IsInstanceStr(query_text)
           \/ strip(query_text.val) = <<>>
    THEN ValueError("Query text cannot be empty and must be a string")
    ELSE IF ~Truthy(api_key)
    THEN ValueError("API key is required")
    ELSE IF ~IsInstanceInt(top_k)
    THEN TypeError("top_k must be an integer")
    ELSE IF IntValue(top_k) <= 0
    THEN ValueError("top_k must be a positive integer")
    ELSE IF ~Truthy(index_name)
    THEN ValueError("Index name is required")
    ELSE NoExc

validate_search_params(query_text, top_k, api_key, index_name) ==
    IF ~Truthy(query_text) \/ ~IsInstanceStr(query_text)
           \/ strip(query_text.val) = <<>>
    THEN ValueError("Query text cannot be empty and must be a string")
    ELSE IF ~IsInstanceInt(top_k)
    THEN TypeError("top_k must be an integer")
    ELSE IF IntValue(top_k) <= 0
    THEN ValueError("top_k must be a positive integer")
    ELSE IF ~Truthy(api_key)
    THEN ValueError("API key is required")
    ELSE IF ~Truthy(index_name)
    THEN ValueError("Index name is required")
    ELSE NoExc

validate_insert_params(text, metadata, api_key, index_name) ==
    IF ~Truthy(text) \/ ~IsInstanceStr(text) \/ strip(text.val) = <<>>
    THEN ValueError("Text cannot be empty and must be a string")
    ELSE IF metadata.type # "NoneType" /\ ~IsInstanceDict(metadata)
    THEN TypeError("Metadata must be a dictionary")
    ELSE IF ~Truthy(api_key)
    THEN ValueError("API key is required")
    ELSE IF ~Truthy(index_name)
    THEN ValueError("Index name is required")
    ELSE NoExc

\* ------------------------------------------------------------ constants
DefaultIndexName == PyStr(<<"msft-deep-search-oai-3-small">>)
EmbeddingModel == "text-embedding-3-small"
NoTextAvailable == <<"No text available">>

\* uuid4 values, as drawn by str(uuid.uuid4()).
Ids == 1..MaxIds

\* ------------------------------------------------------------ the inputs
Texts ==
    {PyStr(<<>>), PyStr(<<" ">>), PyStr(<<" ", "\t", "\n">>), PyStr(<<"a">>),
     PyStr(<<" ", "b", "\n">>)}
TextInputs == Texts \cup {PyNone, PyInt(7)}
TopKInputs ==
    {PyInt(n) : n \in -1..MaxTopK}
        \cup {PyStr(<<"2">>), PyFloat(2), PyNone, PyBool(TRUE)}
Dicts ==
    {<<>>, [category |-> <<"x">>], [text |-> <<"other">>],
     [category |-> <<"x">>, text |-> <<"other">>]}
MetadataInputs ==
    {PyDict(d) : d \in Dicts}
        \cup {PyNone, PyStr(<<"a">>), PyInt(7), PyList(<<"x">>)}
ApiKeyInputs == {PyNone, PyStr(<<>>), PyStr(<<"pk">>)}
IndexNameInputs == {PyNone, PyStr(<<>>), PyStr(<<"idx">>)}
OpenAIKeyInputs == {PyNone, PyStr(<<"ok">>)}
\* Where a call is aimed: the namespace and the host argument.
Targets ==
    {[namespace |-> <<>>, pinecone_host |-> PyNone],
     [namespace |-> <<"ns">>, pinecone_host |-> PyStr(<<"host">>)]}

\* The process environment after load_dotenv: each variable unset or set.
EnvVars == {"PINECONE_API_KEY", "OPENAI_API_KEY", "PINECONE_INDEX_NAME", "PINECONE_HOST"}
Environments == [EnvVars -> {PyNone, PyStr(<<"env">>)}]

NoArgs ==
    [text |-> PyNone, top_k |-> PyNone, metadata |-> PyNone, api_key |-> PyNone,
     index_name |-> PyNone, namespace |-> <<>>, openai_api_key |-> PyNone,
     pinecone_host |-> PyNone]

SearchArgs ==
    {[NoArgs EXCEPT !.text = t, !.top_k = k, !.api_key = ak, !.index_name = ix,
                    !.namespace = tg.namespace, !.openai_api_key = ok,
                    !.pinecone_host = tg.pinecone_host] :
        t \in TextInputs, k \in TopKInputs, ak \in ApiKeyInputs,
        ix \in IndexNameInputs, tg \in Targets, ok \in OpenAIKeyInputs}

InsertArgs ==
    {[NoArgs EXCEPT !.text = t, !.metadata = m, !.api_key = ak, !.index_name = ix,
                    !.namespace = tg.namespace, !.openai_api_key = ok,
                    !.pinecone_host = tg.pinecone_host] :
        t \in TextInputs, m \in MetadataInputs, ak \in ApiKeyInputs,
        ix \in IndexNameInputs, tg \in Targets, ok \in OpenAIKeyInputs}

\* The calls of a session of several invocations: the validators' cases are
\* kept to one failing value each, the store-facing arguments vary in full.
SessionSearchArgs ==
    {a \in SearchArgs :
        /\ a.text \in {PyStr(<<>>), PyStr(<<"a">>), PyStr(<<" ", "b", "\n">>)}
        /\ a.top_k \in {PyInt(n) : n \in 0..MaxTopK}
        /\ a.api_key \in {PyNone, PyStr(<<"pk">>)}
        /\ a.index_name = PyStr(<<"idx">>)}

SessionInsertArgs ==
    {a \in InsertArgs :
        /\ a.text \in {PyStr(<<>>), PyStr(<<"a">>), PyStr(<<" ", "b", "\n">>)}
        /\ a.metadata \in {PyDict(d) : d \in Dicts} \cup {PyNone}
        /\ a.api_key \in {PyNone, PyStr(<<"pk">>)}
        /\ a.index_name = PyStr(<<"idx">>)}

\* The environments of a session.
SessionEnvironments ==
    {e \in Environments :
        /\ e["PINECONE_API_KEY"] = PyNone
        /\ e["PINECONE_INDEX_NAME"] = PyNone
        /\ e["PINECONE_HOST"] = PyNone}

\* ----------------------------------------------------------------- state
VARIABLES
    env,               \* os.environ
    store,             \* the records of the vector store (all namespaces)
    usedIds,           \* uuid4 values drawn so far
    returned,          \* history: identifier and text of each insert_text that returned
    trace,             \* history: the validator call and environment reads of the invocation
    app,               \* the Streamlit script run: the click, the widgets, what is shown
    par,               \* the invocations a host runs in parallel, inside embed_text_openai
    openai_api_key,    \* the module attribute openai.api_key
    pc,                \* position of the running invocation
    op,                \* "none", "search" or "insert": the last invocation
    args,              \* its arguments, as passed
    caller_metadata,   \* the caller's metadata object (insert mutates it)
    frame,             \* the local variables of the invocation
    calls,             \* external calls the invocation has issued, in order
    stdout,            \* lines the invocation printed
    result             \* how the invocation ended

vars == <<env, store, usedIds, returned, trace, par, app, openai_api_key, pc, op, args, caller_metadata,
          frame, calls, stdout, result>>

\* The threads of a host application; none of them is inside a call.
Threads == {"A", "B"}
NoThread ==
    [pc |-> "idle", op |-> "none", text |-> <<>>, openai_api_key |-> PyNone,
     request_key |-> PyNone, ok |-> FALSE]
NoThreads == [t \in Threads |-> NoThread]

\* The app between two script runs: no button clicked, nothing shown.
NoWidgets ==
    [text |-> <<>>, top_k |-> 1, metadata |-> <<>>, api_key |-> <<>>,
     openai_api_key |-> <<>>, index_name |-> <<>>, namespace |-> <<>>]
NoApp == [pc |-> "waiting", clicked |-> "none", widgets |-> NoWidgets, shown |-> <<>>]

NoFrame ==
    [index_name |-> PyNone, pinecone_api_key |-> PyNone, openai_api_key |-> PyNone,
     pinecone_host |-> PyNone, index |-> <<>>, stats |-> <<>>,
     vector_id |-> 0, embedding |-> <<>>, matches |-> <<>>]

NoResult == [status |-> "none", exc |-> NoExc, id |-> 0, items |-> <<>>]
Running == [NoResult EXCEPT !.status = "running"]
Raised(e) == [NoResult EXCEPT !.status = "raised", !.exc = e]
ReturnedId(i) == [NoResult EXCEPT !.status = "returned", !.id = i]
ReturnedItems(s) == [NoResult EXCEPT !.status = "returned", !.items = s]

\* os.getenv(name) and os.getenv(name, default)
getenv(name) == env[name]
getenv_default(name, default) == IF env[name] = PyNone THEN default ELSE env[name]

Init ==
    /\ env \in SessionEnvironments
    /\ store = {}
    /\ usedIds = {}
    /\ returned = {}
    /\ trace = <<>>
    /\ par = NoThreads
    /\ app = NoApp
    /\ openai_api_key = PyNone
    /\ pc = "idle"
    /\ op = "none"
    /\ args = NoArgs
    /\ caller_metadata = PyNone
    /\ frame = NoFrame
    /\ calls = <<>>
    /\ stdout = <<>>
    /\ result = NoResult

\* One external call: its name, the credential it was issued under and
\* whether it succeeded.
Call(name, key, ok) == [call |-> name, key |-> key, ok |-> ok]

\* pc.Index(index_name, host=pinecone_host) or pc.Index(index_name)
Index(api_key, index_name, host) ==
    IF Truthy(host) THEN <<api_key, index_name, host>> ELSE <<api_key, index_name>>

\* The vector the embedding service returns for a text: a function of the
\* text and the fixed model.
Embedding(text) == [model |-> EmbeddingModel, input |-> text]

\* ------------------------------------------------------ search_similar_texts
\* Lines 33-48: default index name, validation, credential resolution and
\* construction of the index handle.
\* What the invocation does before its first external call, in order.
GetenvStep(name) == [ev |-> "getenv", name |-> name]
ValidateStep(fn, arguments) == [ev |-> "validate", fn |-> fn, arguments |-> arguments]

\* Lines 33-34: the environment is read for the index name only when the
\* caller gave none.
index_name_steps(a) ==
    IF a.index_name = PyNone THEN <<GetenvStep("PINECONE_INDEX_NAME")>> ELSE <<>>

\* Lines 37-39: "x or os.getenv(...)" reads the environment only when x is
\* falsy.
resolution_steps(a) ==
    (IF Truthy(a.api_key) THEN <<>> ELSE <<GetenvStep("PINECONE_API_KEY")>>)
        \o (IF Truthy(a.openai_api_key) THEN <<>> ELSE <<GetenvStep("OPENAI_API_KEY")>>)
        \o (IF Truthy(a.pinecone_host) THEN <<>> ELSE <<GetenvStep("PINECONE_HOST")>>)

\* Mutant: the validator is handed the store credential after resolution.
validator_arguments_resolved(a, second, index_name) ==
    <<a.text, second, PyOr(a.api_key, getenv("PINECONE_API_KEY")), index_name>>

\* Line 35 (insert_text.py line 37): the arguments of the validator call.
validator_arguments(a, second, index_name) ==
    <<a.text, second, a.api_key, index_name>>

search_similar_texts(a) ==
    /\ pc = "idle"
    /\ LET index_name == IF a.index_name = PyNone
                         THEN getenv_default("PINECONE_INDEX_NAME", DefaultIndexName)
                         ELSE a.index_name
           va == validator_arguments(a, a.top_k, index_name)
           v == validate_search_params(va[1], va[2], va[3], va[4])
           pinecone_api_key == PyOr(a.api_key, getenv("PINECONE_API_KEY"))
           openai_key == PyOr(a.openai_api_key, getenv("OPENAI_API_KEY"))
           pinecone_host == PyOr(a.pinecone_host, getenv("PINECONE_HOST"))
           e == IF v # NoExc THEN v
                ELSE IF ~Truthy(pinecone_api_key)
                THEN ValueError("Pinecone API key not provided and not found in environment variables")
                ELSE IF ~Truthy(openai_key)
                THEN ValueError("OpenAI API key not provided and not found in environment variables")
                ELSE NoExc
       IN /\ op' = "search"
          /\ args' = a
          /\ trace' = index_name_steps(a) \o <<ValidateStep("validate_search_params", va)>>
                        \o (IF v = NoExc THEN resolution_steps(a) ELSE <<>>)
          /\ caller_metadata' = PyNone
          /\ calls' = <<>>
          /\ stdout' = <<>>
          /\ IF e # NoExc
             THEN /\ result' = Raised(e)
                  /\ frame' = NoFrame
                  /\ pc' = "done"
             ELSE /\ result' = Running
                  /\ frame' = [NoFrame EXCEPT
                                 !.index_name = index_name,
                                 !.pinecone_api_key = pinecone_api_key,
                                 !.openai_api_key = openai_key,
                                 !.pinecone_host = pinecone_host,
                                 !.index = Index(pinecone_api_key, index_name, pinecone_host)]
                  /\ pc' = "search_stats"
    /\ UNCHANGED <<app, par, returned, env, store, usedIds, openai_api_key>>

\* What index.describe_index_stats() can answer: the count of stored
\* vectors, or a response without the total_vector_count field.
StatsResponses == {[total_vector_count |-> Cardinality(store)], [dimension |-> 1536]}

\* stats.get('total_vector_count', 0)
total_vectors(stats) ==
    IF "total_vector_count" \in DOMAIN stats THEN stats.total_vector_count ELSE 0

\* Mutant: the empty index is not short-circuited.
search_describe_index_stats_no_short_circuit(stats) ==
    /\ pc = "search_stats"
    /\ calls' = Append(calls, Call("describe_index_stats", frame.pinecone_api_key, TRUE))
    /\ result' = result
    /\ pc' = "search_embed"
    /\ frame' = [frame EXCEPT !.stats = stats]
    /\ UNCHANGED <<app, trace, par, returned, env, store, usedIds, openai_api_key, op, args,
                   caller_metadata, stdout>>

\* Lines 49-55: the call succeeds; an empty index returns [] at once.
search_describe_index_stats_ok(stats) ==
    /\ pc = "search_stats"
    /\ calls' = Append(calls, Call("describe_index_stats", frame.pinecone_api_key, TRUE))
    /\ IF total_vectors(stats) = 0
       THEN /\ result' = ReturnedItems(<<>>)
            /\ pc' = "done"
       ELSE /\ result' = result
            /\ pc' = "search_embed"
    /\ frame' = [frame EXCEPT !.stats = stats]
    /\ UNCHANGED <<app, trace, par, returned, env, store, usedIds, openai_api_key, op, args,
                   caller_metadata, stdout>>

\* Lines 49-55: the call raises; the handler prints and the search goes on.
search_describe_index_stats_fail ==
    /\ pc = "search_stats"
    /\ calls' = Append(calls, Call("describe_index_stats", frame.pinecone_api_key, FALSE))
    /\ stdout' = Append(stdout, "Error fetching index stats")
    /\ pc' = "search_embed"
    /\ UNCHANGED <<app, trace, par, returned, env, store, usedIds, openai_api_key, op, args, caller_metadata,
                   frame, result>>

\* Mutant: a failure of the embedding call is swallowed and the search
\* goes on with an empty vector.
search_embed_swallow(ok) ==
    /\ pc = "search_embed"
    /\ openai_api_key' = frame.openai_api_key
    /\ calls' = Append(calls, Call("embed", frame.openai_api_key, ok))
    /\ frame' = [frame EXCEPT !.embedding = Embedding(IF ok THEN args.text.val ELSE <<>>)]
    /\ result' = result
    /\ pc' = "search_query"
    /\ UNCHANGED <<app, trace, par, returned, env, store, usedIds, op, args, caller_metadata, stdout>>

\* Line 57 and embed_text_openai (lines 11-17): sets the module-wide
\* credential, then calls the embedding service.
search_embed(ok) ==
    /\ pc = "search_embed"
    /\ openai_api_key' = frame.openai_api_key
    /\ calls' = Append(calls, Call("embed", frame.openai_api_key, ok))
    /\ IF ok
       THEN /\ frame' = [frame EXCEPT !.embedding = Embedding(args.text.val)]
            /\ result' = result
            /\ pc' = "search_query"
       ELSE /\ frame' = frame
            /\ result' = Raised(ExternalError("embed"))
            /\ pc' = "done"
    /\ UNCHANGED <<app, trace, par, returned, env, store, usedIds, op, args, caller_metadata, stdout>>

\* ------------------------------------------------------------ the store
\* Similarity of two embeddings, in percent: the store's native metric,
\* of which only "identical vectors score highest" is modelled.
Score(q, v) == IF q = v THEN 100 ELSE 50

Min(a, b) == IF a < b THEN a ELSE b

\* index.query(namespace, vector, top_k, include_metadata=True): the top_k
\* nearest records of the namespace, by descending score, ties in any order.
QueryResponses(st, namespace, vector, top_k) ==
    LET cand == {r \in st : r.namespace = namespace}
        k == Min(top_k, Cardinality(cand))
    IN {m \in [1..k -> cand] :
           /\ \A i, j \in 1..k : i < j =>
                 /\ m[i] # m[j]
                 /\ Score(vector, m[i].values) >= Score(vector, m[j].values)
           /\ \A r \in cand : (\A i \in 1..k : m[i] # r) =>
                 \A i \in 1..k : Score(vector, m[i].values) >= Score(vector, r.values)}

\* One match of a query response, as the store returns it.
Match(r, vector) ==
    IF "metadata" \in DOMAIN r
    THEN [id |-> r.id, score |-> Score(vector, r.values), metadata |-> r.metadata]
    ELSE [id |-> r.id, score |-> Score(vector, r.values)]

\* index.upsert(vectors=[v], namespace): stores or overwrites one record.
upsert(st, namespace, v) ==
    {r \in st : ~(r.namespace = namespace /\ r.id = v.id)}
        \cup {[id |-> v.id, namespace |-> namespace, values |-> v.values,
               metadata |-> v.metadata]}

\* ------------------------------------------------------ result normalizer
\* Mutant: a match without text gets the empty string.
SearchResult_empty_text(match) ==
    LET metadata == IF "metadata" \in DOMAIN match THEN match.metadata ELSE <<>>
        text == IF "text" \in DOMAIN metadata THEN metadata["text"] ELSE <<>>
    IN [id |-> match.id, text |-> text, similarity_score |-> match.score,
        metadata |-> metadata]

\* Lines 67-77, for one match.
SearchResult(match) ==
    LET metadata == IF "metadata" \in DOMAIN match THEN match.metadata ELSE <<>>
        text == IF "text" \in DOMAIN metadata THEN metadata["text"] ELSE NoTextAvailable
    IN [id |-> match.id, text |-> text, similarity_score |-> match.score,
        metadata |-> metadata]

\* Mutant: the items are returned in the reverse of the response's order.
similar_items_reversed(matches) ==
    [i \in 1..Len(matches) |-> SearchResult(matches[Len(matches) + 1 - i])]

\* Lines 65-78: one item per match, in the order of the response.
similar_items(matches) == [i \in 1..Len(matches) |-> SearchResult(matches[i])]

\* Lines 59-78: the similarity query, then the normalizer.
search_query_ok ==
    /\ pc = "search_query"
    /\ \E m \in QueryResponses(store, args.namespace, frame.embedding,
                               IntValue(args.top_k)) :
          LET matches == [i \in 1..Len(m) |-> Match(m[i], frame.embedding)]
          IN /\ frame' = [frame EXCEPT !.matches = matches]
             /\ result' = ReturnedItems(similar_items(matches))
    /\ calls' = Append(calls, Call("query", frame.pinecone_api_key, TRUE))
    /\ pc' = "done"
    /\ UNCHANGED <<app, trace, par, returned, env, store, usedIds, openai_api_key, op, args, caller_metadata,
                   stdout>>

\* Mutant: a failed query is issued again, once.
search_query_retry ==
    /\ pc = "search_query"
    /\ calls' = Append(calls, Call("query", frame.pinecone_api_key, FALSE))
    /\ IF calls[Len(calls)].call = "query"
       THEN result' = Raised(ExternalError("query")) /\ pc' = "done"
       ELSE result' = result /\ pc' = "search_query"
    /\ UNCHANGED <<app, trace, par, returned, env, store, usedIds, openai_api_key, op, args, caller_metadata,
                   frame, stdout>>

search_query_fail ==
    /\ pc = "search_query"
    /\ calls' = Append(calls, Call("query", frame.pinecone_api_key, FALSE))
    /\ result' = Raised(ExternalError("query"))
    /\ pc' = "done"
    /\ UNCHANGED <<app, trace, par, returned, env, store, usedIds, openai_api_key, op, args, caller_metadata,
                   frame, stdout>>

\* ---------------------------------------------------------------- insert_text
\* Mutant: the identifier is computed once and reused by every call.
uuid4_once == {1}

\* Mutant: the identifier is not fresh (drawn without regard to earlier ones).
uuid4_any == Ids

\* str(uuid.uuid4()): a value that no earlier call of the run has drawn.
uuid4 == Ids \ usedIds

\* Lines 35-50: default index name, validation, credential resolution,
\* construction of the index handle and the fresh identifier.
insert_text(a) ==
    /\ pc = "idle"
    /\ LET index_name == IF a.index_name = PyNone
                         THEN getenv_default("PINECONE_INDEX_NAME", DefaultIndexName)
                         ELSE a.index_name
           va == validator_arguments(a, a.metadata, index_name)
           v == validate_insert_params(va[1], va[2], va[3], va[4])
           pinecone_api_key == PyOr(a.api_key, getenv("PINECONE_API_KEY"))
           openai_key == PyOr(a.openai_api_key, getenv("OPENAI_API_KEY"))
           pinecone_host == PyOr(a.pinecone_host, getenv("PINECONE_HOST"))
           e == IF v # NoExc THEN v
                ELSE IF ~Truthy(pinecone_api_key)
                THEN ValueError("Pinecone API key not provided and not found in environment variables")
                ELSE IF ~Truthy(openai_key)
                THEN ValueError("OpenAI API key not provided and not found in environment variables")
                ELSE NoExc
       IN /\ op' = "insert"
          /\ args' = a
          /\ trace' = index_name_steps(a) \o <<ValidateStep("validate_insert_params", va)>>
                        \o (IF v = NoExc THEN resolution_steps(a) ELSE <<>>)
          /\ caller_metadata' = a.metadata
          /\ calls' = <<>>
          /\ stdout' = <<>>
          /\ IF e # NoExc
             THEN /\ result' = Raised(e)
                  /\ frame' = NoFrame
                  /\ usedIds' = usedIds
                  /\ pc' = "done"
             ELSE \E vector_id \in uuid4 :
                  /\ result' = Running
                  /\ usedIds' = usedIds \cup {vector_id}
                  /\ frame' = [NoFrame EXCEPT
                                 !.index_name = index_name,
                                 !.pinecone_api_key = pinecone_api_key,
                                 !.openai_api_key = openai_key,
                                 !.pinecone_host = pinecone_host,
                                 !.index = Index(pinecone_api_key, index_name, pinecone_host),
                                 !.vector_id = vector_id]
                  /\ pc' = "insert_embed"
    /\ UNCHANGED <<app, par, returned, env, store, openai_api_key>>

\* Mutant: a failed embedding call is retried, up to three attempts.
insert_embed_retry(ok) ==
    /\ pc = "insert_embed"
    /\ openai_api_key' = frame.openai_api_key
    /\ calls' = Append(calls, Call("embed", frame.openai_api_key, ok))
    /\ IF ok
       THEN /\ frame' = [frame EXCEPT !.embedding = Embedding(args.text.val)]
            /\ result' = result
            /\ pc' = "insert_upsert"
       ELSE /\ frame' = frame
            /\ result' = IF Len(calls) < 2 THEN result ELSE Raised(ExternalError("embed"))
            /\ pc' = IF Len(calls) < 2 THEN "insert_embed" ELSE "done"
    /\ UNCHANGED <<app, trace, par, returned, env, store, usedIds, op, args, caller_metadata, stdout>>

\* Mutant: a failure of the embedding call is swallowed and the insert
\* goes on to the upsert.
insert_embed_swallow(ok) ==
    /\ pc = "insert_embed"
    /\ openai_api_key' = frame.openai_api_key
    /\ calls' = Append(calls, Call("embed", frame.openai_api_key, ok))
    /\ frame' = [frame EXCEPT !.embedding = Embedding(IF ok THEN args.text.val ELSE <<>>)]
    /\ result' = result
    /\ pc' = "insert_upsert"
    /\ UNCHANGED <<app, trace, par, returned, env, store, usedIds, op, args, caller_metadata, stdout>>

\* Line 51 and embed_text_openai (lines 13-19).
insert_embed(ok) ==
    /\ pc = "insert_embed"
    /\ openai_api_key' = frame.openai_api_key
    /\ calls' = Append(calls, Call("embed", frame.openai_api_key, ok))
    /\ IF ok
       THEN /\ frame' = [frame EXCEPT !.embedding = Embedding(args.text.val)]
            /\ result' = result
            /\ pc' = "insert_upsert"
       ELSE /\ frame' = frame
            /\ result' = Raised(ExternalError("embed"))
            /\ pc' = "done"
    /\ UNCHANGED <<app, trace, par, returned, env, store, usedIds, op, args, caller_metadata, stdout>>

\* Mutant: the text is written only when the caller gave no text key
\* (setdefault instead of assignment).
merge_text_setdefault(metadata, text) ==
    LET d == IF metadata = PyNone THEN <<>> ELSE metadata.val
    IN [k \in DOMAIN d \cup {"text"} |-> IF k \in DOMAIN d THEN d[k] ELSE text]

\* Mutant: the text is stored stripped of its surrounding whitespace.
merge_text_stripped(metadata, text) ==
    LET d == IF metadata = PyNone THEN <<>> ELSE metadata.val
    IN [k \in DOMAIN d \cup {"text"} |-> IF k = "text" THEN strip(text) ELSE d[k]]

\* Lines 52-54: a missing mapping becomes an empty one, then the text is
\* written under the reserved key.
merge_text(metadata, text) ==
    LET d == IF metadata = PyNone THEN <<>> ELSE metadata.val
    IN [k \in DOMAIN d \cup {"text"} |-> IF k = "text" THEN text ELSE d[k]]

\* The upsert request: the call, with the vectors and namespace it carries.
UpsertCall(key, ok, vectors, namespace) ==
    [call |-> "upsert", key |-> key, ok |-> ok, vectors |-> vectors,
     namespace |-> namespace]

\* Mutant: the payload is built in a copy of the caller's mapping.
insert_upsert_copy(ok) ==
    /\ pc = "insert_upsert"
    /\ LET metadata == merge_text(caller_metadata, args.text.val)
           vector == [id |-> frame.vector_id, values |-> frame.embedding,
                      metadata |-> metadata]
       IN /\ caller_metadata' = caller_metadata
          /\ calls' = Append(calls, UpsertCall(frame.pinecone_api_key, ok, <<vector>>,
                                                args.namespace))
          /\ IF ok
             THEN /\ store' = upsert(store, args.namespace, vector)
                  /\ returned' = returned \cup {[id |-> frame.vector_id, text |-> args.text.val]}
                  /\ result' = ReturnedId(frame.vector_id)
             ELSE /\ store' = store
                  /\ returned' = returned
                  /\ result' = Raised(ExternalError("upsert"))
    /\ pc' = "done"
    /\ UNCHANGED <<app, trace, par, env, usedIds, openai_api_key, op, args, frame, stdout>>

\* Mutant: the upsert goes to the default namespace whatever the caller asked.
insert_upsert_default_namespace(ok) ==
    /\ pc = "insert_upsert"
    /\ LET metadata == merge_text(caller_metadata, args.text.val)
           vector == [id |-> frame.vector_id, values |-> frame.embedding,
                      metadata |-> metadata]
       IN /\ caller_metadata' = IF caller_metadata = PyNone THEN PyNone
                                ELSE PyDict(metadata)
          /\ calls' = Append(calls, UpsertCall(frame.pinecone_api_key, ok, <<vector>>,
                                                <<>>))
          /\ IF ok
             THEN /\ store' = upsert(store, <<>>, vector)
                  /\ returned' = returned \cup {[id |-> frame.vector_id, text |-> args.text.val]}
                  /\ result' = ReturnedId(frame.vector_id)
             ELSE /\ store' = store
                  /\ returned' = returned
                  /\ result' = Raised(ExternalError("upsert"))
    /\ pc' = "done"
    /\ UNCHANGED <<app, trace, par, env, usedIds, openai_api_key, op, args, frame, stdout>>

\* Lines 52-63: the payload is built (in the caller's mapping, when there
\* is one), then upserted; the identifier is returned.
insert_upsert(ok) ==
    /\ pc = "insert_upsert"
    /\ LET metadata == merge_text(caller_metadata, args.text.val)
           vector == [id |-> frame.vector_id, values |-> frame.embedding,
                      metadata |-> metadata]
       IN /\ caller_metadata' = IF caller_metadata = PyNone THEN PyNone
                                ELSE PyDict(metadata)
          /\ calls' = Append(calls, UpsertCall(frame.pinecone_api_key, ok, <<vector>>,
                                                args.namespace))
          /\ IF ok
             THEN /\ store' = upsert(store, args.namespace, vector)
                  /\ returned' = returned \cup {[id |-> frame.vector_id, text |-> args.text.val]}
                  /\ result' = ReturnedId(frame.vector_id)
             ELSE /\ store' = store
                  /\ returned' = returned
                  /\ result' = Raised(ExternalError("upsert"))
    /\ pc' = "done"
    /\ UNCHANGED <<app, trace, par, env, usedIds, openai_api_key, op, args, frame, stdout>>

\* The caller takes the return value or the exception; the frame is gone.
return_to_caller ==
    /\ pc = "done"
    /\ pc' = "idle"
    /\ op' = "none"
    /\ args' = NoArgs
    /\ caller_metadata' = PyNone
    /\ frame' = NoFrame
    /\ calls' = <<>>
    /\ stdout' = <<>>
    /\ result' = NoResult
    /\ trace' = <<>>
    /\ UNCHANGED <<app, par, returned, env, store, usedIds, openai_api_key>>

\* ------------------------------------------------------------------ behaviour
Next ==
    \/ pc = "idle" /\ \E a \in SessionSearchArgs : search_similar_texts(a)
    \/ \E stats \in StatsResponses : search_describe_index_stats_ok(stats)
    \/ search_describe_index_stats_fail
    \/ \E ok \in BOOLEAN : search_embed(ok)
    \/ search_query_ok
    \/ search_query_fail
    \/ pc = "idle" /\ \E a \in SessionInsertArgs : insert_text(a)
    \/ \E ok \in BOOLEAN : insert_embed(ok)
    \/ \E ok \in BOOLEAN : insert_upsert(ok)
    \/ return_to_caller

Spec == Init /\ [][Next]_vars

\* One invocation, over the whole of the inputs and of the environments,
\* against an empty index or an index of one record.
InitInputs ==
    /\ env \in Environments
    /\ \/ store = {} /\ usedIds = {} /\ returned = {}
       \/ /\ store = upsert({}, <<>>, [id |-> 1, values |-> Embedding(<<"a">>),
                                       metadata |-> merge_text(PyNone, <<"a">>)])
          /\ usedIds = {1}
          /\ returned = {[id |-> 1, text |-> <<"a">>]}
    /\ trace = <<>>
    /\ par = NoThreads
    /\ app = NoApp
    /\ openai_api_key = PyNone
    /\ pc = "idle"
    /\ op = "none"
    /\ args = NoArgs
    /\ caller_metadata = PyNone
    /\ frame = NoFrame
    /\ calls = <<>>
    /\ stdout = <<>>
    /\ result = NoResult

NextInputs ==
    \/ pc = "idle" /\ \E a \in SearchArgs : search_similar_texts(a)
    \/ \E stats \in StatsResponses : search_describe_index_stats_ok(stats)
    \/ search_describe_index_stats_fail
    \/ \E ok \in BOOLEAN : search_embed(ok)
    \/ search_query_ok
    \/ search_query_fail
    \/ pc = "idle" /\ \E a \in InsertArgs : insert_text(a)
    \/ \E ok \in BOOLEAN : insert_embed(ok)
    \/ \E ok \in BOOLEAN : insert_upsert(ok)

SpecInputs == InitInputs /\ [][NextInputs]_vars

\* ------------------------------------------- searches of a foreign index
\* search_similar_texts reads whatever the index holds (include_metadata=True,
\* lines 59-64): records put there by other writers may carry metadata
\* without the text key, or no metadata at all.
ForeignRecords ==
    {[id |-> 1, namespace |-> <<>>, values |-> Embedding(<<"a">>),
      metadata |-> [category |-> <<"x">>]],
     [id |-> 2, namespace |-> <<>>, values |-> Embedding(<<"q">>),
      metadata |-> [text |-> <<"t">>]],
     [id |-> 3, namespace |-> <<>>, values |-> Embedding(<<"a">>)]}

InitForeign ==
    /\ env \in SessionEnvironments
    /\ store \in SUBSET ForeignRecords
    /\ usedIds = {}
    /\ returned = {}
    /\ trace = <<>>
    /\ par = NoThreads
    /\ app = NoApp
    /\ openai_api_key = PyNone
    /\ pc = "idle"
    /\ op = "none"
    /\ args = NoArgs
    /\ caller_metadata = PyNone
    /\ frame = NoFrame
    /\ calls = <<>>
    /\ stdout = <<>>
    /\ result = NoResult

NextForeign ==
    \/ pc = "idle" /\ \E a \in SessionSearchArgs : search_similar_texts(a)
    \/ \E stats \in StatsResponses : search_describe_index_stats_ok(stats)
    \/ search_describe_index_stats_fail
    \/ \E ok \in BOOLEAN : search_embed(ok)
    \/ search_query_ok
    \/ search_query_fail

SpecForeign == InitForeign /\ [][NextForeign]_vars

\* --------------------------------------------- two invocations in parallel
\* A host application (app.py under a multi-threaded server) may run two
\* invocations at once.  Both modules import the same openai module, and
\* embed_text_openai is two steps on it: it assigns the module attribute
\* openai.api_key, then issues openai.embeddings.create, which is sent under
\* whatever openai.api_key holds at that moment.  The steps of different
\* threads interleave.

\* The embedding credential each thread's invocation carries.
ThreadKey(t) == IF t = "A" THEN PyStr(<<"okA">>) ELSE PyStr(<<"okB">>)
ParOps == {"search", "insert"}
ParTexts == {<<"a">>, <<" ", "b", "\n">>}

\* search_similar.py line 57 / insert_text.py line 51: the invocation of
\* thread t has passed validation and resolution and calls embed_text_openai.
par_embed_text_openai(t, o, text) ==
    /\ par[t].pc = "idle"
    /\ par' = [par EXCEPT ![t] = [NoThread EXCEPT !.pc = "set_api_key", !.op = o,
                                                  !.text = text,
                                                  !.openai_api_key = ThreadKey(t)]]
    /\ UNCHANGED <<app, trace, env, store, usedIds, returned, openai_api_key, pc, op, args,
                   caller_metadata, frame, calls, stdout, result>>

\* embed_text_openai, first statement: openai.api_key = openai_api_key.
par_set_api_key(t) ==
    /\ par[t].pc = "set_api_key"
    /\ openai_api_key' = par[t].openai_api_key
    /\ par' = [par EXCEPT ![t].pc = "create"]
    /\ UNCHANGED <<app, trace, env, store, usedIds, returned, pc, op, args, caller_metadata, frame,
                   calls, stdout, result>>

\* embed_text_openai, second statement: openai.embeddings.create(...); the
\* request goes out under the module's current api_key.
par_embeddings_create(t, ok) ==
    /\ par[t].pc = "create"
    /\ par' = [par EXCEPT ![t].pc = "done", ![t].request_key = openai_api_key,
                          ![t].ok = ok]
    /\ UNCHANGED <<app, trace, env, store, usedIds, returned, openai_api_key, pc, op, args,
                   caller_metadata, frame, calls, stdout, result>>

\* The invocation of thread t ends; the thread is free for another one.
par_return(t) ==
    /\ par[t].pc = "done"
    /\ par' = [par EXCEPT ![t] = NoThread]
    /\ UNCHANGED <<app, trace, env, store, usedIds, returned, openai_api_key, pc, op, args,
                   caller_metadata, frame, calls, stdout, result>>

NextPar ==
    \/ \E t \in Threads, o \in ParOps, text \in ParTexts : par_embed_text_openai(t, o, text)
    \/ \E t \in Threads : par_set_api_key(t)
    \/ \E t \in Threads, ok \in BOOLEAN : par_embeddings_create(t, ok)
    \/ \E t \in Threads : par_return(t)

SpecPar == Init /\ [][NextPar]_vars

\* ------------------------------------------------------- the Streamlit app
\* app.py is run top to bottom on every interaction.  A run that a button
\* click caused sees that button as True and the other as False; the sidebar
\* and the tab's inputs are read as strings.  The icons that lead the
\* messages are left out of the texts below.
AppTexts == {<<>>, <<" ">>, <<"a">>}
AppWidgets ==
    {[text |-> t, top_k |-> k, metadata |-> m, api_key |-> ak, openai_api_key |-> ok,
      index_name |-> ix, namespace |-> ns] :
        t \in AppTexts, k \in 1..MaxTopK, m \in {<<>>, [category |-> <<"x">>]},
        ak \in {<<>>, <<"pk">>}, ok \in {<<>>, <<"ok">>}, ix \in {<<>>, <<"idx">>},
        ns \in {<<>>, <<"ns">>}}

\* One element a tab shows.
Shown(tab, widget, text, value) ==
    [tab |-> tab, widget |-> widget, text |-> text, value |-> value]

\* Lines 143-150 and 311-318: the if/elif chain on the inputs; "" when all
\* four are given.
handler_error(w, text_message) ==
    IF w.text = <<>> THEN text_message
    ELSE IF w.api_key = <<>> THEN "Please enter your Pinecone API Key in the sidebar"
    ELSE IF w.openai_api_key = <<>> THEN "Please enter your OpenAI API Key in the sidebar"
    ELSE IF w.index_name = <<>> THEN "Please enter an index name in the sidebar"
    ELSE ""

\* Lines 155-162 and 323-330: the arguments the handlers pass.
AppSearchArgs(w) ==
    [NoArgs EXCEPT !.text = PyStr(w.text), !.top_k = PyInt(w.top_k),
                   !.api_key = PyStr(w.api_key), !.index_name = PyStr(w.index_name),
                   !.namespace = w.namespace, !.openai_api_key = PyStr(w.openai_api_key)]
AppInsertArgs(w) ==
    [NoArgs EXCEPT !.text = PyStr(w.text), !.metadata = PyDict(w.metadata),
                   !.api_key = PyStr(w.api_key), !.index_name = PyStr(w.index_name),
                   !.namespace = w.namespace, !.openai_api_key = PyStr(w.openai_api_key)]

\* Lines 142-151: the Search button was clicked.
app_search_clicked(w) ==
    /\ app.pc = "waiting"
    /\ pc = "idle"
    /\ LET e == handler_error(w, "Please enter a search query")
       IN app' = [pc |-> IF e = "" THEN "call" ELSE "rendered",
                  clicked |-> "search",
                  widgets |-> w,
                  shown |-> IF e = "" THEN <<>>
                            ELSE <<Shown("search", "error", e, PyNone)>>]
    /\ UNCHANGED <<env, store, usedIds, returned, trace, par, openai_api_key, pc, op, args,
                   caller_metadata, frame, calls, stdout, result>>

\* Lines 152-162: inside try, search_similar_texts is called.
app_call_search ==
    /\ app.pc = "call"
    /\ app.clicked = "search"
    /\ search_similar_texts(AppSearchArgs(app.widgets))

\* Mutant: the handler catches ValueError only; anything else leaves the
\* script run with an uncaught exception.
app_search_returned_value_errors_only ==
    /\ app.pc = "call"
    /\ app.clicked = "search"
    /\ pc = "done"
    /\ app' = [app EXCEPT
                 !.pc = IF result.status = "raised" /\ result.exc.exc # "ValueError"
                        THEN "crashed" ELSE "rendered",
                 !.shown = IF result.status = "raised"
                           THEN IF result.exc.exc # "ValueError" THEN <<>>
                                ELSE <<Shown("search", "error", "Error", result.exc),
                                       Shown("search", "exception", "", result.exc)>>
                           ELSE IF result.items # <<>>
                           THEN <<Shown("search", "success", "Found similar texts",
                                        PyInt(Len(result.items)))>>
                           ELSE <<Shown("search", "info", "No results found", PyNone)>>]
    /\ UNCHANGED <<env, store, usedIds, returned, trace, par, openai_api_key, pc, op, args,
                   caller_metadata, frame, calls, stdout, result>>

\* Lines 163-259: the call came back.  Results are rendered (one success
\* banner stands for the cards), an empty list gives the info line, and an
\* exception is caught by "except Exception" and shown with st.error and
\* st.exception.
app_search_returned ==
    /\ app.pc = "call"
    /\ app.clicked = "search"
    /\ pc = "done"
    /\ app' = [app EXCEPT
                 !.pc = "rendered",
                 !.shown = IF result.status = "raised"
                           THEN <<Shown("search", "error", "Error", result.exc),
                                  Shown("search", "exception", "", result.exc)>>
                           ELSE IF result.items # <<>>
                           THEN <<Shown("search", "success", "Found similar texts",
                                        PyInt(Len(result.items)))>>
                           ELSE <<Shown("search", "info", "No results found", PyNone)>>]
    /\ UNCHANGED <<env, store, usedIds, returned, trace, par, openai_api_key, pc, op, args,
                   caller_metadata, frame, calls, stdout, result>>

\* Lines 310-319: the Insert button was clicked.
app_insert_clicked(w) ==
    /\ app.pc = "waiting"
    /\ pc = "idle"
    /\ LET e == handler_error(w, "Please enter text to insert")
       IN app' = [pc |-> IF e = "" THEN "call" ELSE "rendered",
                  clicked |-> "insert",
                  widgets |-> w,
                  shown |-> IF e = "" THEN <<>>
                            ELSE <<Shown("insert", "error", e, PyNone)>>]
    /\ UNCHANGED <<env, store, usedIds, returned, trace, par, openai_api_key, pc, op, args,
                   caller_metadata, frame, calls, stdout, result>>

\* Lines 320-330: inside try, insert_text is called with the metadata dict
\* built from the key/value fields.
app_call_insert ==
    /\ app.pc = "call"
    /\ app.clicked = "insert"
    /\ insert_text(AppInsertArgs(app.widgets))

\* Lines 331-355: the call came back.  On success the identifier, the
\* namespace, the index and the metadata dict (which now carries text) are
\* shown; an exception is caught and shown.
app_insert_returned ==
    /\ app.pc = "call"
    /\ app.clicked = "insert"
    /\ pc = "done"
    /\ app' = [app EXCEPT
                 !.pc = "rendered",
                 !.shown = IF result.status = "raised"
                           THEN <<Shown("insert", "error", "Error", result.exc),
                                  Shown("insert", "exception", "", result.exc)>>
                           ELSE <<Shown("insert", "success",
                                        "Successfully inserted text into Pinecone", PyNone),
                                  Shown("insert", "info", "Vector ID", PyInt(result.id)),
                                  Shown("insert", "info", "Namespace",
                                        PyStr(app.widgets.namespace)),
                                  Shown("insert", "info", "Index",
                                        PyStr(app.widgets.index_name))>>
                                \o (IF Truthy(caller_metadata)
                                    THEN <<Shown("insert", "json", "Added Metadata",
                                                 caller_metadata)>>
                                    ELSE <<>>)]
    /\ UNCHANGED <<env, store, usedIds, returned, trace, par, openai_api_key, pc, op, args,
                   caller_metadata, frame, calls, stdout, result>>

\* The script run is over; the app waits for the next interaction.  The
\* index keeps its records.
app_rerun ==
    /\ app.pc = "rendered"
    /\ app' = NoApp
    /\ pc' = "idle"
    /\ op' = "none"
    /\ args' = NoArgs
    /\ caller_metadata' = PyNone
    /\ frame' = NoFrame
    /\ calls' = <<>>
    /\ stdout' = <<>>
    /\ result' = NoResult
    /\ trace' = <<>>
    /\ UNCHANGED <<env, store, usedIds, returned, par, openai_api_key>>

NextApp ==
    \/ \E w \in AppWidgets : app_search_clicked(w)
    \/ app_call_search
    \/ \E stats \in StatsResponses : search_describe_index_stats_ok(stats)
    \/ search_describe_index_stats_fail
    \/ \E ok \in BOOLEAN : search_embed(ok)
    \/ search_query_ok
    \/ search_query_fail
    \/ app_search_returned
    \/ \E w \in AppWidgets : app_insert_clicked(w)
    \/ app_call_insert
    \/ \E ok \in BOOLEAN : insert_embed(ok)
    \/ \E ok \in BOOLEAN : insert_upsert(ok)
    \/ app_insert_returned
    \/ app_rerun

SpecApp == Init /\ [][NextApp]_vars

\* ===================================================================== claims
\* Vocabulary of the claims, stated without the operators of the model.
Invoked == op \in {"search", "insert"}

\* A str that is empty or made of whitespace only.
IsBlank(v) == v.type = "str" /\ \A i \in 1..Len(v.val) : v.val[i] \in Whitespace

\* A str with at least one character that is not whitespace.
HasText(v) == v.type = "str" /\ \E i \in 1..Len(v.val) : v.val[i] \notin Whitespace

CallNames == [i \in 1..Len(calls) |-> calls[i].call]

IsPrefix(s, t) == Len(s) <= Len(t) /\ \A i \in 1..Len(s) : s[i] = t[i]

RaisedKind(k) == pc = "done" /\ result.status = "raised" /\ result.exc.exc = k

\* C1: an empty or whitespace-only text makes insert_text and
\* search_similar_texts fail with ValueError, and the invocation issues no
\* external call at all.
C1_BlankTextRejected ==
    (Invoked /\ IsBlank(args.text)) => (RaisedKind("ValueError") /\ calls = <<>>)

C1_Witness ==
    /\ op = "search"
    /\ args.text = PyStr(<<" ", "\t", "\n">>)
    /\ RaisedKind("ValueError")
    /\ calls = <<>>

\* C2: when describe_index_stats reports total_vector_count = 0, the search
\* returns the empty list and has called neither the embedder nor query.
C2_EmptyIndexShortCircuit ==
    (/\ op = "search"
     /\ "total_vector_count" \in DOMAIN frame.stats
     /\ frame.stats.total_vector_count = 0)
    => /\ pc = "done"
       /\ result = ReturnedItems(<<>>)
       /\ \A i \in 1..Len(calls) : calls[i].call \notin {"embed", "query"}

C2_Witness ==
    /\ op = "search"
    /\ pc = "done"
    /\ frame.stats = [total_vector_count |-> 0]
    /\ HasText(args.text)
    /\ calls = <<Call("describe_index_stats", frame.pinecone_api_key, TRUE)>>

C4_AtMostTwoEmbedFirst ==
    /\ Len(calls) <= 2
    /\ \A i \in 1..Len(calls) :
          calls[i].call \in {"describe_index_stats", "query", "upsert"} =>
              \E j \in 1..(i - 1) : calls[j].call = "embed"

\* C4, amended: insert_text issues at most two external calls, embed then
\* upsert; search_similar_texts issues at most three, in the order
\* describe_index_stats, embed, query.
C4_CallOrder ==
    /\ op = "insert" => IsPrefix(CallNames, <<"embed", "upsert">>)
    /\ op = "search" => IsPrefix(CallNames, <<"describe_index_stats", "embed", "query">>)
    /\ op = "none" => calls = <<>>

C4_Witness ==
    /\ op = "search"
    /\ pc = "done"
    /\ CallNames = <<"describe_index_stats", "embed", "query">>
    /\ result.status = "returned"
    /\ result.items # <<>>

\* C5: a failed embed call is the last call of its invocation (no upsert,
\* no query follows), and no step of an insert_text that does not return
\* an identifier changes the records of the store.
C5_FailedEmbedStopsAndStoreKept ==
    [][/\ \A i \in 1..Len(calls') :
             (calls'[i].call = "embed" /\ ~calls'[i].ok) =>
                 (i = Len(calls') /\ pc' = "done")
       /\ (op' = "insert" /\ result'.status # "returned") => store' = store]_vars

C5_Witness ==
    /\ op = "insert"
    /\ pc = "done"
    /\ store # {}
    /\ CallNames = <<"embed">>
    /\ result = Raised(ExternalError("embed"))

\* C6: a validation failure is a TypeError only when some input is of the
\* wrong kind, and a ValueError only when some input of the right kind has
\* a bad value or a credential or index name is missing.
KindDefect ==
    \/ args.text.type \notin {"str", "NoneType"}
    \/ op = "search" /\ args.top_k.type \notin {"int", "bool"}
    \/ op = "insert" /\ args.metadata.type \notin {"dict", "NoneType"}

ValueDefect ==
    \/ args.text = PyNone
    \/ IsBlank(args.text)
    \/ op = "search" /\ args.top_k.type \in {"int", "bool"} /\ IntValue(args.top_k) <= 0
    \/ args.api_key \in {PyNone, PyStr(<<>>)}
    \/ args.index_name = PyStr(<<>>)
    \/ args.openai_api_key = PyNone /\ env["OPENAI_API_KEY"] = PyNone

C6_ErrorKindMatchesCause ==
    /\ RaisedKind("TypeError") => KindDefect
    /\ RaisedKind("ValueError") => ValueDefect

\* C7: for a valid query text, a top_k that is not an integer fails with
\* TypeError and an integer top_k <= 0 fails with ValueError, in both cases
\* before any external call.
C7_TopKRejectedBeforeEmbed ==
    (op = "search" /\ HasText(args.text)) =>
        /\ args.top_k.type \notin {"int", "bool"} =>
               (RaisedKind("TypeError") /\ calls = <<>>)
        /\ (args.top_k.type = "int" /\ args.top_k.val <= 0) =>
               (RaisedKind("ValueError") /\ calls = <<>>)

C7_Witness ==
    /\ op = "search"
    /\ args.text = PyStr(<<"a">>)
    /\ args.top_k = PyStr(<<"2">>)
    /\ RaisedKind("TypeError")
    /\ calls = <<>>

\* C8: an invocation fails for a missing credential only when the
\* vector-store key or the embedding key is absent from both the explicit
\* argument and the environment.
MissingCredentialMessages ==
    {"API key is required",
     "Pinecone API key not provided and not found in environment variables",
     "OpenAI API key not provided and not found in environment variables"}

C8_CredentialFromEnvironment ==
    (Invoked /\ RaisedKind("ValueError") /\ result.exc.msg \in MissingCredentialMessages)
    => \/ ~Truthy(args.api_key) /\ ~Truthy(env["PINECONE_API_KEY"])
       \/ ~Truthy(args.openai_api_key) /\ ~Truthy(env["OPENAI_API_KEY"])

\* C9: after a successful insert_text of T with metadata M, the record sent
\* to the store has text = T, also when M had its own text, and every
\* other key of M with the caller's value.
C9_TextKeyLastWriteWins ==
    (op = "insert" /\ pc = "done" /\ result.status = "returned") =>
        \E r \in store :
            /\ r.id = result.id
            /\ r.namespace = args.namespace
            /\ r.metadata["text"] = args.text.val
            /\ args.metadata # PyNone =>
                   \A k \in DOMAIN args.metadata.val \ {"text"} :
                       k \in DOMAIN r.metadata /\ r.metadata[k] = args.metadata.val[k]

C9_Witness ==
    /\ op = "insert"
    /\ pc = "done"
    /\ result.status = "returned"
    /\ args.metadata = PyDict([category |-> <<"x">>, text |-> <<"other">>])
    /\ \E r \in store : r.id = result.id /\ r.metadata["text"] = args.text.val

\* C10: when insert_text of T with metadata {category: x} returns I, the
\* record I of the store holds category = x and text = T, and no later step
\* (a further insert_text included) changes or removes a stored record.
C10_RoundTripPersists ==
    [][/\ (/\ op' = "insert"
           /\ result'.status = "returned"
           /\ args'.metadata = PyDict([category |-> <<"x">>]))
          => \E r \in store' :
                 /\ r.id = result'.id
                 /\ r.namespace = args'.namespace
                 /\ \A q \in store' :
                        (q.id = r.id /\ q.namespace = r.namespace) => q = r
                 /\ r.metadata = [category |-> <<"x">>, text |-> args'.text.val]
       /\ \A r \in store : r \in store']_vars

C10_Witness ==
    /\ op = "insert"
    /\ pc = "done"
    /\ result.status = "returned"
    /\ \E r \in store :
          /\ r.id # result.id
          /\ "category" \in DOMAIN r.metadata
          /\ r.metadata["category"] = <<"x">>

\* C11: an insert_text that returns gives an identifier that no earlier
\* insert_text of the session returned, and leaves every record stored
\* before it as it was.
C11_FreshIdentifier ==
    [][(op' = "insert" /\ result'.status = "returned" /\ result.status # "returned")
       => /\ \A h \in returned : h.id # result'.id
          /\ \A r \in store : r \in store'
          /\ Cardinality(store') = Cardinality(store) + 1]_vars

C11_Witness ==
    /\ op = "insert"
    /\ pc = "done"
    /\ result.status = "returned"
    /\ Cardinality(returned) = 2
    /\ \E h \in returned : h.id # result.id

\* C12: when the query call of a search succeeds, the returned list has one
\* item per match of the response, in the response's order, and each item's
\* id, similarity_score and metadata are the match's id, score and metadata.
C12_OneItemPerMatchInOrder ==
    (op = "search" /\ pc = "done" /\ calls # <<>> /\ calls[Len(calls)].call = "query"
        /\ calls[Len(calls)].ok)
        => /\ result.status = "returned"
           /\ Len(result.items) = Len(frame.matches)
           /\ \A i \in 1..Len(frame.matches) :
                 /\ result.items[i].id = frame.matches[i].id
                 /\ result.items[i].similarity_score = frame.matches[i].score
                 /\ result.items[i].metadata = frame.matches[i].metadata

C12_Witness ==
    /\ op = "search"
    /\ pc = "done"
    /\ result.status = "returned"
    /\ Len(frame.matches) = 2
    /\ frame.matches[1].id # frame.matches[2].id
    /\ frame.matches[1].score > frame.matches[2].score
    /\ Len(result.items) = 2

\* C13: in the list a search returns, the item of a match whose metadata has
\* a text field carries exactly that value as its text, and the item of a
\* match without one (or without metadata) carries "No text available"; the
\* search returns instead of raising.
C13_MissingTextGetsSentinel ==
    (op = "search" /\ pc = "done" /\ calls # <<>> /\ calls[Len(calls)].call = "query"
        /\ calls[Len(calls)].ok)
        => /\ result.status = "returned"
           /\ DOMAIN result.items = DOMAIN frame.matches
           /\ \A i \in DOMAIN frame.matches :
                 LET m == frame.matches[i]
                 IN IF "metadata" \in DOMAIN m /\ "text" \in DOMAIN m.metadata
                    THEN result.items[i].text = m.metadata["text"]
                    ELSE result.items[i].text = <<"No text available">>

C13_Witness ==
    /\ op = "search"
    /\ pc = "done"
    /\ result.status = "returned"
    /\ \E i, j \in DOMAIN frame.matches :
          /\ "metadata" \in DOMAIN frame.matches[i]
          /\ "text" \notin DOMAIN frame.matches[i].metadata
          /\ result.items[i].text = <<"No text available">>
          /\ "metadata" \in DOMAIN frame.matches[j]
          /\ "text" \in DOMAIN frame.matches[j].metadata
          /\ result.items[j].text = <<"t">>

\* C14: against an index that only insert_text writes to, every item a
\* search returns has the text key in its metadata, and its text is the text
\* passed to the insert_text call that returned the item's id, never the
\* placeholder.
C14_ResultTextIsInsertedText ==
    (op = "search" /\ result.status = "returned")
        => \A i \in DOMAIN result.items :
              LET item == result.items[i]
              IN /\ "text" \in DOMAIN item.metadata
                 /\ item.text # <<"No text available">>
                 /\ \E h \in returned : h.id = item.id
                 /\ \A h \in returned : h.id = item.id => h.text = item.text

C14_Witness ==
    /\ op = "search"
    /\ result.status = "returned"
    /\ Len(result.items) = 2
    /\ \E i \in DOMAIN result.items : result.items[i].text = <<" ", "b", "\n">>
    /\ \E i \in DOMAIN result.items :
          /\ result.items[i].text = <<"a">>
          /\ result.items[i].metadata = [category |-> <<"x">>, text |-> <<"a">>]

\* C15: when two invocations with different embedding credentials run in
\* parallel, every embed request that has been issued went out under the
\* credential of the invocation that issued it.
C15_EmbedUnderOwnCredential ==
    \A t \in Threads :
        par[t].pc = "done" => par[t].request_key = par[t].openai_api_key

\* C16: within one invocation no external operation is issued twice, whether
\* its first issue succeeded or failed.
C16_NoRetry ==
    \A i, j \in DOMAIN calls : calls[i].call = calls[j].call => i = j

C16_Witness ==
    /\ op = "search"
    /\ pc = "done"
    /\ CallNames = <<"describe_index_stats", "embed", "query">>
    /\ ~calls[1].ok
    /\ ~calls[3].ok
    /\ result.status = "raised"

\* The positions of the validator call and of the credential reads in the
\* trace; the validator and the second argument that go with the operation.
ValidatorCalls == {i \in DOMAIN trace : trace[i].ev = "validate"}
CredentialReads ==
    {i \in DOMAIN trace :
        trace[i].ev = "getenv" /\ trace[i].name \in {"PINECONE_API_KEY", "OPENAI_API_KEY"}}
ValidatorOf(o) == IF o = "search" THEN "validate_search_params" ELSE "validate_insert_params"
SecondArgument == IF op = "search" THEN args.top_k ELSE args.metadata

\* C17 as stated: every invocation calls its validator exactly once, with the
\* caller's own four arguments, before any credential is read from the
\* environment and before any external call.
C17_ValidatorGetsCallerArguments ==
    Invoked
        => /\ Cardinality(ValidatorCalls) = 1
           /\ \A i \in ValidatorCalls :
                 /\ trace[i].fn = ValidatorOf(op)
                 /\ trace[i].arguments
                       = <<args.text, SecondArgument, args.api_key, args.index_name>>
                 /\ \A j \in CredentialReads : i < j

\* C17, amended: as above, except that the index name handed to the validator
\* is the caller's only when the caller gave one; otherwise it is the value of
\* PINECONE_INDEX_NAME, or the built-in default when that is unset.
C17_ValidatorGetsDefaultedIndexName ==
    Invoked
        => /\ Cardinality(ValidatorCalls) = 1
           /\ \A i \in ValidatorCalls :
                 /\ trace[i].fn = ValidatorOf(op)
                 /\ trace[i].arguments
                       = <<args.text, SecondArgument, args.api_key,
                           IF args.index_name # PyNone THEN args.index_name
                           ELSE IF env["PINECONE_INDEX_NAME"] # PyNone
                           THEN env["PINECONE_INDEX_NAME"]
                           ELSE PyStr(<<"msft-deep-search-oai-3-small">>)>>
                 /\ \A j \in CredentialReads : i < j

C17_Witness ==
    /\ op = "search"
    /\ calls # <<>>
    /\ args.index_name = PyNone
    /\ args.api_key # PyNone
    /\ args.openai_api_key = PyNone
    /\ CredentialReads # {}
    /\ \E i \in ValidatorCalls : trace[i].arguments[4] # args.index_name

\* C18: the mapping the caller passed as metadata is what the caller passed
\* until the upsert is issued (so after any failure of validation, credential
\* resolution or embed), and from then on, whether the upsert succeeds or
\* fails, it is that mapping with text set to the inserted text and nothing
\* else changed; a metadata that is no mapping is never changed.
C18_CallerMappingGainsOnlyText ==
    op = "insert"
        => IF IsInstanceDict(args.metadata) /\ "upsert" \in {calls[i].call : i \in DOMAIN calls}
           THEN /\ IsInstanceDict(caller_metadata)
                /\ DOMAIN caller_metadata.val = DOMAIN args.metadata.val \cup {"text"}
                /\ caller_metadata.val["text"] = args.text.val
                /\ \A k \in DOMAIN args.metadata.val \ {"text"} :
                      caller_metadata.val[k] = args.metadata.val[k]
           ELSE caller_metadata = args.metadata

C18_Witness ==
    /\ op = "insert"
    /\ pc = "done"
    /\ result.status = "raised"
    /\ CallNames = <<"embed", "upsert">>
    /\ args.metadata = PyDict([category |-> <<"x">>])
    /\ caller_metadata = PyDict([category |-> <<"x">>, text |-> args.text.val])

\* C19: an insert_text that returned an identifier issued exactly one upsert;
\* that upsert carried exactly one vector, whose id is the returned
\* identifier and whose values are the embedding the embed call gave for the
\* inserted text, and it was aimed at the namespace the caller passed.
C19_OneUpsertOfOneVector ==
    (op = "insert" /\ result.status = "returned")
        => LET upserts == {i \in DOMAIN calls : calls[i].call = "upsert"}
           IN /\ Cardinality(upserts) = 1
              /\ \A i \in upserts :
                    /\ calls[i].ok
                    /\ Len(calls[i].vectors) = 1
                    /\ calls[i].vectors[1].id = result.id
                    /\ calls[i].vectors[1].values = frame.embedding
                    /\ calls[i].vectors[1].values
                          = [model |-> "text-embedding-3-small", input |-> args.text.val]
                    /\ calls[i].namespace = args.namespace
                    /\ \E j \in 1..(i - 1) : calls[j].call = "embed" /\ calls[j].ok

C19_Witness ==
    /\ op = "insert"
    /\ result.status = "returned"
    /\ args.namespace = <<"ns">>
    /\ \E r \in store : r.id = result.id /\ r.namespace = <<"ns">>
    /\ Len(calls) = 2
    /\ calls[2].namespace = <<"ns">>

\* What is wrong with the arguments of the invocation, check by check.
BadText == ~HasText(args.text)
TopKNotInteger == args.top_k.type \notin {"int", "bool"}
TopKNotPositive == ~TopKNotInteger /\ IntValue(args.top_k) <= 0
MetadataNotMapping == args.metadata.type \notin {"NoneType", "dict"}
NoStoreCredential == args.api_key = PyNone \/ args.api_key = PyStr(<<>>)
NoIndexName ==
    \/ args.index_name = PyStr(<<>>)
    \/ args.index_name = PyNone /\ env["PINECONE_INDEX_NAME"] = PyStr(<<>>)

\* C20: of several invalid inputs only the first failing check is reported:
\* for search in the order query text, top_k type, top_k value, store
\* credential, index name; for insert in the order text, metadata type, store
\* credential, index name.  So a blank query with a non-integer top_k raises
\* the value kind, and a non-integer top_k with no credential the type kind.
C20_FirstFailingCheckReported ==
    /\ op = "search" =>
          /\ BadText => result.exc.msg = "Query text cannot be empty and must be a string"
          /\ (~BadText /\ TopKNotInteger) => result.exc.msg = "top_k must be an integer"
          /\ (~BadText /\ TopKNotPositive)
                => result.exc.msg = "top_k must be a positive integer"
          /\ (~BadText /\ ~TopKNotInteger /\ ~TopKNotPositive /\ NoStoreCredential)
                => result.exc.msg = "API key is required"
          /\ (~BadText /\ ~TopKNotInteger /\ ~TopKNotPositive /\ ~NoStoreCredential
                /\ NoIndexName)
                => result.exc.msg = "Index name is required"
          /\ (BadText /\ TopKNotInteger) => RaisedKind("ValueError")
          /\ (~BadText /\ TopKNotInteger /\ NoStoreCredential) => RaisedKind("TypeError")
    /\ op = "insert" =>
          /\ BadText => result.exc.msg = "Text cannot be empty and must be a string"
          /\ (~BadText /\ MetadataNotMapping)
                => result.exc.msg = "Metadata must be a dictionary"
          /\ (~BadText /\ ~MetadataNotMapping /\ NoStoreCredential)
                => result.exc.msg = "API key is required"
          /\ (~BadText /\ ~MetadataNotMapping /\ ~NoStoreCredential /\ NoIndexName)
                => result.exc.msg = "Index name is required"

C20_Witness ==
    /\ op = "search"
    /\ ~BadText
    /\ TopKNotInteger
    /\ NoStoreCredential
    /\ NoIndexName
    /\ RaisedKind("TypeError")

\* The message the tab of the clicked button owes for the first empty input,
\* in the order text, Pinecone key, OpenAI key, index name.
SomeInputEmpty ==
    \/ app.widgets.text = <<>>
    \/ app.widgets.api_key = <<>>
    \/ app.widgets.openai_api_key = <<>>
    \/ app.widgets.index_name = <<>>
FirstEmptyMessage ==
    IF app.widgets.text = <<>>
    THEN (IF app.clicked = "search" THEN "Please enter a search query"
          ELSE "Please enter text to insert")
    ELSE IF app.widgets.api_key = <<>>
    THEN "Please enter your Pinecone API Key in the sidebar"
    ELSE IF app.widgets.openai_api_key = <<>>
    THEN "Please enter your OpenAI API Key in the sidebar"
    ELSE "Please enter an index name in the sidebar"

\* C21: after a click on Search or Insert with the text, the Pinecone key, the
\* OpenAI key or the index name empty, the tab shows the error of the first
\* empty one and neither search_similar_texts nor insert_text is called; when
\* the call is made, an exception it raises is shown in the clicked tab and
\* never leaves the script run, and only the clicked tab's operation is ever
\* invoked.
C21_AppGuardsAndCatches ==
    /\ app.pc # "crashed"
    /\ op \in {"none", app.clicked}
    /\ \A i \in DOMAIN app.shown : app.shown[i].tab = app.clicked
    /\ (app.clicked # "none" /\ SomeInputEmpty)
          => /\ op = "none"
             /\ calls = <<>>
             /\ trace = <<>>
             /\ app.pc = "rendered"
             /\ Len(app.shown) = 1
             /\ app.shown[1].widget = "error"
             /\ app.shown[1].text = FirstEmptyMessage
    /\ (app.pc = "rendered" /\ op # "none" /\ result.status = "raised")
          => /\ app.shown # <<>>
             /\ app.shown[1].widget = "error"
             /\ app.shown[1].value = result.exc

C21_Witness ==
    /\ app.pc = "rendered"
    /\ app.clicked = "search"
    /\ app.widgets.text = <<" ">>
    /\ op = "search"
    /\ result.status = "raised"
    /\ result.exc.exc = "ValueError"
    /\ app.shown[1].widget = "error"
    /\ store # {}

====
